---- MODULE Spec2Model ----
(***************************************************************************)
(* Model of obj3d.py, a small Wavefront .obj viewer: load_obj (the parser  *)
(* with fan triangulation), draw_mesh (the indexing of the vertex list)    *)
(* and main (startup checks and the pygame event/render loop).             *)
(*                                                                         *)
(* Numbers.  zoom, rot_x and rot_y are Python floats that only ever take   *)
(* multiples of 0.5 (5.0, +-1.0, +-0.5, integer pixel deltas * 0.5), which *)
(* binary floating point represents exactly.  They are stored here in      *)
(* HALVES: the model's zoom = 10 is the program's zoom = 5.0.              *)
(*                                                                         *)
(* Text.  A line of a file is the result of line.strip().split(): a tag    *)
(* (parts[0], or "#" / "" for a comment / blank line) and the remaining    *)
(* tokens parts[1:].  A token is kept as what float()/int() make of it:    *)
(* a number, the empty string (the first '/'-component of "/3"), or text   *)
(* that float()/int() reject.                                              *)
(***************************************************************************)
EXTENDS Integers, Sequences, FiniteSets, TLC

\* ------------------------------------------------------------------ bounds
MaxVertLines == 2      \* vertices read from one file (loader specification)
MaxStored    == 2      \* an 'f' line is read while fewer triangles are stored
MaxFaceLen   == 5      \* indices on one 'f' line
MaxVertArgs  == 4      \* coordinate tokens on one 'v' line
MaxEvents    == 6      \* state-changing input events dispatched in one run
MaxCoord     == 1      \* pointer coordinates range over 0..MaxCoord

\* ------------------------------------------------------------------ tokens
Num(n) == [k |-> "num", n |-> n]       \* a token float()/int() accept
Empty  == [k |-> "empty", n |-> 0]     \* '' : v.split('/')[0] of "/3"
Bad    == [k |-> "bad", n |-> 0]       \* a token float()/int() reject

Line(tag, args) == [tag |-> tag, args |-> args]

\* ------------------------------------------------------------- load_obj
\* x, y, z = map(float, parts[1:4]): needs three tokens, each a float.
VertexParses(args) ==
    /\ Len(args) >= 3
    /\ \A i \in 1..3 : args[i].k = "num"

\* The vertex appended by line 39: the first three tokens, extras ignored.
ParseVertex(args) == <<args[1].n, args[2].n, args[3].n>>

\* Lines 44-46: idx = v.split('/')[0]; if idx: face.append(int(idx) - 1).
FaceAppend(face, tok) ==
    IF tok.k = "num" THEN Append(face, tok.n - 1) ELSE face

\* Lines 41-46: face = [], then the loop over parts[1:].
RECURSIVE FaceFrom(_, _)
FaceFrom(face, args) ==
    IF args = <<>> THEN face
    ELSE FaceFrom(FaceAppend(face, Head(args)), Tail(args))

FaceIndices(args) == FaceFrom(<<>>, args)

\* int(idx) raises ValueError on a non-empty, non-integer component.
FaceParses(args) == \A i \in 1..Len(args) : args[i].k # "bad"

\* Mutant of Fan: the fan is anchored at the previous index, not at face[0].
FanStrip(face) ==
    IF Len(face) < 3 THEN <<>>
    ELSE [i \in 1..(Len(face) - 2) |-> <<face[i], face[i + 1], face[i + 2]>>]

\* Lines 47-54: a face of fewer than 3 indices is dropped, one of 3 is kept,
\* a longer one becomes the fan [face[0], face[i], face[i+1]], i = 1..n-2.
Fan(face) ==
    IF Len(face) < 3 THEN <<>>
    ELSE IF Len(face) = 3 THEN <<face>>
    ELSE [i \in 1..(Len(face) - 2) |-> <<face[1], face[i + 1], face[i + 2]>>]

\* Does processing this line raise inside the try block?
Raises(line) ==
    \/ line.tag = "v" /\ ~VertexParses(line.args)
    \/ line.tag = "f" /\ ~FaceParses(line.args)

\* Mutant of ProcessLine: the handler discards what was read so far.
ProcessLineClearing(st, line) ==
    IF Raises(line) THEN [verts |-> <<>>, faces |-> <<>>, raised |-> TRUE]
    ELSE IF line.tag = "v"
         THEN [st EXCEPT !.verts = Append(@, ParseVertex(line.args))]
    ELSE IF line.tag = "f"
         THEN [st EXCEPT !.faces = @ \o Fan(FaceIndices(line.args))]
    ELSE st

\* One iteration of "for line in f" (lines 31-54) on the loader's locals
\* st = [verts, faces, raised].  An exception leaves verts and faces as they
\* are (nothing of the offending line was appended yet) and ends the loop.
ProcessLine(st, line) ==
    IF Raises(line) THEN [st EXCEPT !.raised = TRUE]
    ELSE IF line.tag = "v"
         THEN [st EXCEPT !.verts = Append(@, ParseVertex(line.args))]
    ELSE IF line.tag = "f"
         THEN [st EXCEPT !.faces = @ \o Fan(FaceIndices(line.args))]
    ELSE st       \* '#', blank, vt, vn, o, g, s, usemtl, ...

\* Lines 27-28: verts = [], faces = [].
EmptyLoad == [verts |-> <<>>, faces |-> <<>>, raised |-> FALSE]

RECURSIVE ReadLines(_, _)
ReadLines(st, lines) ==
    IF lines = <<>> \/ st.raised THEN st
    ELSE ReadLines(ProcessLine(st, Head(lines)), Tail(lines))

\* What open(path) finds: a readable text of lines, or nothing it can open.
File(lines) == [readable |-> TRUE, lines |-> lines]
Unreadable  == [readable |-> FALSE, lines |-> <<>>]

\* load_obj(path) on the file's content: what it returns (verts, faces) and
\* whether the except branch ran (it prints 'Erro ao carregar OBJ').
load_obj(file) ==
    IF ~file.readable THEN [EmptyLoad EXCEPT !.raised = TRUE]
    ELSE ReadLines(EmptyLoad, file.lines)

\* ------------------------------------------------------------- draw_mesh
\* verts[i] on a Python list of length n: IndexError unless -n <= i < n.
IndexRaises(n, i) == i >= n \/ i < -n

\* draw_mesh(verts, faces) raises IndexError at verts[f[0..2]] (lines 73-79).
DrawRaises(vs, fs) ==
    \E t \in 1..Len(fs) : \E j \in 1..3 : IndexRaises(Len(vs), fs[t][j])

\* ------------------------------------------------------------------ state
VARIABLES
    \* main()
    pc,          \* where main() is: start, load, setup, poll (line 150),
                 \* events (line 151), done (after pygame.quit()),
                 \* returned (early return), crashed (an exception left main)
    path,        \* main's path
    verts,       \* main's verts
    faces,       \* main's faces
    zoom,        \* in halves
    rot_x,       \* in halves
    rot_y,       \* in halves
    mouse_down,
    last_mouse,  \* <<x, y>>
    running,
    window,      \* pygame.display.set_mode has been called
    printed,     \* which of main's two diagnostics were printed
    \* load_obj() run line by line (loader specification)
    ld_pc,       \* closed, reading (line 31), face (line 42), returned
    ld_verts,    \* load_obj's verts
    ld_faces,    \* load_obj's faces
    ld_face,     \* load_obj's face: the indices of the last 'f' line
    ld_raised,   \* the except branch ran
    \* history of the run, written by no program statement
    evCount,     \* state-changing events dispatched
    nKey,        \* #K_UP - #K_DOWN key-downs dispatched
    nScroll,     \* #button-4 - #button-5 presses dispatched
    lastLeft,    \* the most recent left-button event: none, down, up
    anchor,      \* the pointer position of the last drag event
    dragX,       \* sum of x deltas during drags since the last reset
    dragY,       \* sum of y deltas during drags since the last reset
    afterReset   \* the last dispatched event was K_r

mainVars == <<pc, path, verts, faces, zoom, rot_x, rot_y, mouse_down,
              last_mouse, running, window, printed>>
loadVars == <<ld_pc, ld_verts, ld_faces, ld_face, ld_raised>>
histVars == <<evCount, nKey, nScroll, lastLeft, anchor, dragX, dragY,
              afterReset>>
vars == <<mainVars, loadVars, histVars>>

\* Program constants, in halves where they are floats.
InitialZoom    == 10    \* zoom = 5.0
KeyZoomStep    == 2     \* zoom -= 1.0 / zoom += 1.0
ScrollZoomStep == 1     \* zoom -= 0.5 / zoom += 0.5

\* n * 0.5, in halves.
Half(n) == n

Init ==
    /\ pc = "start" /\ path = "" /\ verts = <<>> /\ faces = <<>>
    /\ zoom = InitialZoom /\ rot_x = 0 /\ rot_y = 0
    /\ mouse_down = FALSE /\ last_mouse = <<0, 0>>
    /\ running = TRUE /\ window = FALSE /\ printed = {}
    /\ ld_pc = "closed" /\ ld_verts = <<>> /\ ld_faces = <<>>
    /\ ld_face = <<>> /\ ld_raised = FALSE
    /\ evCount = 0 /\ nKey = 0 /\ nScroll = 0 /\ lastLeft = "none"
    /\ anchor = <<0, 0>> /\ dragX = 0 /\ dragY = 0 /\ afterReset = FALSE

\* ------------------------------------------- load_obj, one step at a time
\* The lines a file may hold.  Coordinates and indices are drawn from small
\* sets; the index tokens include 0 (stored as -1) and 2 (past the vertices
\* read so far, or not).
CoordTokens == {Num(1), Bad}
RefTokens   == {Num(0), Num(2), Empty, Bad}
SeqsUpTo(S, n) == UNION {[1..m -> S] : m \in 0..n}
VertLines    == {Line("v", a) : a \in SeqsUpTo(CoordTokens, MaxVertArgs)}
IgnoredLines == {Line("#", <<>>), Line("", <<>>), Line("vn", <<Num(1)>>)}

ldState == [verts |-> ld_verts, faces |-> ld_faces, raised |-> ld_raised]

\* Line 30: open(path); an OSError goes to the handler of line 55.
OpenFile(ok) ==
    /\ ld_pc = "closed"
    /\ ld_pc' = IF ok THEN "reading" ELSE "returned"
    /\ ld_raised' = ~ok
    /\ UNCHANGED <<ld_verts, ld_faces, ld_face, mainVars, histVars>>

\* Lines 31-39: the next line is a comment, blank, a 'v' line or a line of
\* another kind; lines 55-57 when it raises.
ReadLine(line) ==
    /\ ld_pc = "reading"
    /\ line.tag = "v" => Len(ld_verts) < MaxVertLines
    /\ LET st == ProcessLine(ldState, line) IN
         /\ ld_verts' = st.verts
         /\ ld_faces' = st.faces
         /\ ld_raised' = st.raised
         /\ ld_pc' = IF st.raised THEN "returned" ELSE "reading"
    /\ UNCHANGED <<ld_face, mainVars, histVars>>

\* Lines 40-41: the next line is an 'f' line; face = [].
BeginFace ==
    /\ ld_pc = "reading"
    /\ Len(ld_faces) < MaxStored
    /\ ld_pc' = "face"
    /\ ld_face' = <<>>
    /\ UNCHANGED <<ld_verts, ld_faces, ld_raised, mainVars, histVars>>

\* Lines 42-46: the next reference of the line; lines 55-57 when int() raises.
FaceToken(tok) ==
    /\ ld_pc = "face"
    /\ Len(ld_face) < MaxFaceLen
    /\ IF tok.k = "bad"
       THEN ld_raised' = TRUE /\ ld_pc' = "returned" /\ ld_face' = ld_face
       ELSE ld_face' = FaceAppend(ld_face, tok) /\ UNCHANGED <<ld_raised, ld_pc>>
    /\ UNCHANGED <<ld_verts, ld_faces, mainVars, histVars>>

\* Lines 47-54: the line has no reference left.
EndFace ==
    /\ ld_pc = "face"
    /\ ld_faces' = ld_faces \o Fan(ld_face)
    /\ ld_pc' = "reading"
    /\ UNCHANGED <<ld_verts, ld_face, ld_raised, mainVars, histVars>>

\* End of file: line 57 returns verts, faces.
EndOfFile ==
    /\ ld_pc = "reading"
    /\ ld_pc' = "returned"
    /\ UNCHANGED <<ld_verts, ld_faces, ld_face, ld_raised, mainVars, histVars>>

NextLoad ==
    \/ \E ok \in BOOLEAN : OpenFile(ok)
    \/ \E line \in VertLines \cup IgnoredLines : ReadLine(line)
    \/ BeginFace
    \/ \E tok \in RefTokens : FaceToken(tok)
    \/ EndFace
    \/ EndOfFile

SpecLoad == Init /\ [][NextLoad]_vars

\* ------------------------------------------------------------------ main
\* The files main() is pointed at, by path.  "" is no path: an empty argument
\* or a cancelled dialog.
V(x, y, z) == Line("v", <<Num(x), Num(y), Num(z)>>)
F3(a, b, c) == Line("f", <<Num(a), Num(b), Num(c)>>)
Paths == {"tri.obj", "points.obj", "missing.obj", "dangling.obj"}
Files ==
    [p \in Paths |->
       CASE p = "tri.obj" ->
              File(<<Line("#", <<>>), V(0, 0, 0), V(1, 0, 0), V(0, 1, 0),
                     F3(1, 2, 3)>>)
         [] p = "points.obj" ->
              File(<<V(0, 0, 0), V(1, 0, 0), V(0, 1, 0)>>)
         [] p = "missing.obj" -> Unreadable
         [] p = "dangling.obj" ->
              File(<<V(0, 0, 0), V(1, 0, 0), V(0, 1, 0), F3(1, 2, 4)>>)]

\* load_obj(path) for each of these paths (the files do not change while
\* the viewer runs).
Loaded == [p \in Paths |-> load_obj(Files[p])]

Pos == (0..MaxCoord) \X (0..MaxCoord)

\* "not verts or not faces" (line 103) / "verts and faces" (line 199).
MeshEmpty(vs, fs) == vs = <<>> \/ fs = <<>>

\* Lines 94-100: the path comes from sys.argv[1] or from the dialog.
Start(p) ==
    /\ pc = "start"
    /\ path' = p
    /\ IF p = ""
       THEN pc' = "returned" /\ printed' = printed \cup {"no file selected"}
       ELSE pc' = "load" /\ printed' = printed
    /\ UNCHANGED <<verts, faces, zoom, rot_x, rot_y, mouse_down, last_mouse,
                   running, window, loadVars, histVars>>

\* Mutant of LoadInitial: only the vertices are tested.
LoadInitialVertsOnly ==
    /\ pc = "load"
    /\ LET m == Loaded[path] IN
         /\ verts' = m.verts
         /\ faces' = m.faces
         /\ IF m.verts = <<>>
            THEN /\ pc' = "returned"
                 /\ printed' = printed \cup {"empty file"}
            ELSE /\ pc' = "setup"
                 /\ printed' = printed
    /\ UNCHANGED <<path, zoom, rot_x, rot_y, mouse_down, last_mouse, running,
                   window, loadVars, histVars>>

\* Lines 102-105.
LoadInitial ==
    /\ pc = "load"
    /\ LET m == Loaded[path] IN
         /\ verts' = m.verts
         /\ faces' = m.faces
         /\ IF MeshEmpty(m.verts, m.faces)
            THEN /\ pc' = "returned"
                 /\ printed' = printed \cup {"empty file"}
            ELSE /\ pc' = "setup"
                 /\ printed' = printed
    /\ UNCHANGED <<path, zoom, rot_x, rot_y, mouse_down, last_mouse, running,
                   window, loadVars, histVars>>

\* Lines 107-149: statistics, the window, OpenGL state, the camera.
Setup ==
    /\ pc = "setup"
    /\ window' = TRUE
    /\ zoom' = InitialZoom /\ rot_x' = 0 /\ rot_y' = 0
    /\ mouse_down' = FALSE /\ last_mouse' = <<0, 0>>
    /\ running' = TRUE
    /\ pc' = "poll"
    /\ UNCHANGED <<path, verts, faces, printed, loadVars, histVars>>

\* Lines 150-151: "while running" holds, pygame.event.get() is drained.
PollEvents ==
    /\ pc = "poll" /\ running
    /\ pc' = "events"
    /\ UNCHANGED <<path, verts, faces, zoom, rot_x, rot_y, mouse_down,
                   last_mouse, running, window, printed, loadVars, histVars>>

\* Lines 150, 206: "while running" fails, pygame.quit().
QuitPygame ==
    /\ pc = "poll" /\ ~running
    /\ pc' = "done"
    /\ window' = FALSE
    /\ UNCHANGED <<path, verts, faces, zoom, rot_x, rot_y, mouse_down,
                   last_mouse, running, printed, loadVars, histVars>>


\* An event is dispatched by the for loop of line 151.  The events that change
\* no state but running are not counted against MaxEvents.
Dispatching == pc = "events"
Counted == Dispatching /\ evCount < MaxEvents

\* Lines 152-153.
EvQuit ==
    /\ Dispatching
    /\ running' = FALSE
    /\ afterReset' = FALSE
    /\ UNCHANGED <<pc, path, verts, faces, zoom, rot_x, rot_y, mouse_down,
                   last_mouse, window, printed, loadVars, evCount, nKey,
                   nScroll, lastLeft, anchor, dragX, dragY>>

\* Lines 155-156.
KeyEscape ==
    /\ Dispatching
    /\ running' = FALSE
    /\ afterReset' = FALSE
    /\ UNCHANGED <<pc, path, verts, faces, zoom, rot_x, rot_y, mouse_down,
                   last_mouse, window, printed, loadVars, evCount, nKey,
                   nScroll, lastLeft, anchor, dragX, dragY>>

\* Mutant of KeyO: a successful dialog also resets the rotation.
KeyOResetting(newpath) ==
    /\ Counted
    /\ IF newpath # ""
       THEN LET m == Loaded[newpath] IN
              /\ verts' = m.verts
              /\ faces' = m.faces
              /\ rot_x' = 0 /\ rot_y' = 0
       ELSE UNCHANGED <<verts, faces, rot_x, rot_y>>
    /\ evCount' = evCount + 1
    /\ afterReset' = FALSE
    /\ UNCHANGED <<pc, path, zoom, mouse_down, last_mouse,
                   running, window, printed, loadVars, nKey, nScroll, lastLeft, anchor,
                   dragX, dragY>>

\* Lines 157-160: newpath is what open_file_dialog() returns.
KeyO(newpath) ==
    /\ Counted
    /\ IF newpath # ""
       THEN LET m == Loaded[newpath] IN
              /\ verts' = m.verts
              /\ faces' = m.faces
       ELSE UNCHANGED <<verts, faces>>
    /\ evCount' = evCount + 1
    /\ afterReset' = FALSE
    /\ UNCHANGED <<pc, path, zoom, rot_x, rot_y, mouse_down, last_mouse,
                   running, window, printed, loadVars, nKey, nScroll, lastLeft, anchor,
                   dragX, dragY>>

\* Mutant of KeyR: the reset also restores the zoom.
KeyRWithZoom ==
    /\ Counted
    /\ rot_x' = 0 /\ rot_y' = 0
    /\ zoom' = InitialZoom
    /\ dragX' = 0 /\ dragY' = 0
    /\ evCount' = evCount + 1
    /\ afterReset' = TRUE
    /\ UNCHANGED <<pc, path, verts, faces, mouse_down, last_mouse,
                   running, window, printed, loadVars, nKey, nScroll, lastLeft,
                   anchor>>

\* Lines 161-162.
KeyR ==
    /\ Counted
    /\ rot_x' = 0 /\ rot_y' = 0
    /\ dragX' = 0 /\ dragY' = 0
    /\ evCount' = evCount + 1
    /\ afterReset' = TRUE
    /\ UNCHANGED <<pc, path, verts, faces, zoom, mouse_down, last_mouse,
                   running, window, printed, loadVars, nKey, nScroll, lastLeft,
                   anchor>>

\* Mutant of KeyUp: the camera is kept in front of the origin.
KeyUpClamped ==
    /\ Counted
    /\ zoom' = IF zoom - KeyZoomStep < ScrollZoomStep THEN ScrollZoomStep
               ELSE zoom - KeyZoomStep
    /\ nKey' = nKey + 1
    /\ evCount' = evCount + 1
    /\ afterReset' = FALSE
    /\ UNCHANGED <<pc, path, verts, faces, rot_x, rot_y, mouse_down,
                   last_mouse, running, window, printed, loadVars, nScroll,
                   lastLeft, anchor, dragX, dragY>>

\* Lines 163-164.
KeyUp ==
    /\ Counted
    /\ zoom' = zoom - KeyZoomStep
    /\ nKey' = nKey + 1
    /\ evCount' = evCount + 1
    /\ afterReset' = FALSE
    /\ UNCHANGED <<pc, path, verts, faces, rot_x, rot_y, mouse_down,
                   last_mouse, running, window, printed, loadVars, nScroll,
                   lastLeft, anchor, dragX, dragY>>

\* Lines 165-166.
KeyDown ==
    /\ Counted
    /\ zoom' = zoom + KeyZoomStep
    /\ nKey' = nKey - 1
    /\ evCount' = evCount + 1
    /\ afterReset' = FALSE
    /\ UNCHANGED <<pc, path, verts, faces, rot_x, rot_y, mouse_down,
                   last_mouse, running, window, printed, loadVars, nScroll,
                   lastLeft, anchor, dragX, dragY>>

\* Lines 167-170: MOUSEBUTTONDOWN, button 1, at pos.
LeftDown(pos) ==
    /\ Counted
    /\ mouse_down' = TRUE
    /\ last_mouse' = pos
    /\ lastLeft' = "down"
    /\ anchor' = pos
    /\ evCount' = evCount + 1
    /\ afterReset' = FALSE
    /\ UNCHANGED <<pc, path, verts, faces, zoom, rot_x, rot_y, running,
                   window, printed, loadVars, nKey, nScroll, dragX, dragY>>

\* Lines 171-172: MOUSEBUTTONDOWN, button 4.
WheelUp ==
    /\ Counted
    /\ zoom' = zoom - ScrollZoomStep
    /\ nScroll' = nScroll + 1
    /\ evCount' = evCount + 1
    /\ afterReset' = FALSE
    /\ UNCHANGED <<pc, path, verts, faces, rot_x, rot_y, mouse_down,
                   last_mouse, running, window, printed, loadVars, nKey,
                   lastLeft, anchor, dragX, dragY>>

\* Lines 173-174: MOUSEBUTTONDOWN, button 5.
WheelDown ==
    /\ Counted
    /\ zoom' = zoom + ScrollZoomStep
    /\ nScroll' = nScroll - 1
    /\ evCount' = evCount + 1
    /\ afterReset' = FALSE
    /\ UNCHANGED <<pc, path, verts, faces, rot_x, rot_y, mouse_down,
                   last_mouse, running, window, printed, loadVars, nKey,
                   lastLeft, anchor, dragX, dragY>>

\* Lines 175-177: MOUSEBUTTONUP, button 1.
LeftUp ==
    /\ Counted
    /\ mouse_down' = FALSE
    /\ lastLeft' = "up"
    /\ evCount' = evCount + 1
    /\ afterReset' = FALSE
    /\ UNCHANGED <<pc, path, verts, faces, zoom, rot_x, rot_y, last_mouse,
                   running, window, printed, loadVars, nKey, nScroll, anchor,
                   dragX, dragY>>

\* The pointer deltas a drag accumulates: counted while the most recent
\* left-button event is a press, from the previous drag position.
DragHistory(pos) ==
    IF lastLeft = "down"
    THEN /\ dragX' = dragX + (pos[1] - anchor[1])
         /\ dragY' = dragY + (pos[2] - anchor[2])
         /\ anchor' = pos
    ELSE UNCHANGED <<dragX, dragY, anchor>>

\* Mutant of MouseMotion: the axes are exchanged.
MouseMotionSwapped(pos) ==
    /\ Counted
    /\ IF mouse_down
       THEN LET dx == pos[1] - last_mouse[1]
                dy == pos[2] - last_mouse[2]
            IN /\ rot_x' = rot_x + Half(dx)
               /\ rot_y' = rot_y + Half(dy)
               /\ last_mouse' = pos
       ELSE UNCHANGED <<rot_x, rot_y, last_mouse>>
    /\ DragHistory(pos)
    /\ evCount' = evCount + 1
    /\ afterReset' = FALSE
    /\ UNCHANGED <<pc, path, verts, faces, zoom, mouse_down, running, window,
                   printed, loadVars, nKey, nScroll, lastLeft>>

\* Lines 178-184: MOUSEMOTION at pos.
MouseMotion(pos) ==
    /\ Counted
    /\ IF mouse_down
       THEN LET dx == pos[1] - last_mouse[1]
                dy == pos[2] - last_mouse[2]
            IN /\ rot_x' = rot_x + Half(dy)
               /\ rot_y' = rot_y + Half(dx)
               /\ last_mouse' = pos
       ELSE UNCHANGED <<rot_x, rot_y, last_mouse>>
    /\ DragHistory(pos)
    /\ evCount' = evCount + 1
    /\ afterReset' = FALSE
    /\ UNCHANGED <<pc, path, verts, faces, zoom, mouse_down, running, window,
                   printed, loadVars, nKey, nScroll, lastLeft>>

\* Lines 151-184 with no branch taken: another key, another mouse button,
\* another event type.
OtherEvent ==
    /\ Counted
    /\ evCount' = evCount + 1
    /\ afterReset' = FALSE
    /\ UNCHANGED <<mainVars, loadVars, nKey, nScroll, lastLeft, anchor, dragX,
                   dragY>>

\* The for loop of line 151 has no event left; lines 186-204: clear, camera,
\* draw_mesh when there is a mesh, flip, tick.  An IndexError of draw_mesh
\* leaves main().
RenderFrame ==
    /\ Dispatching
    /\ pc' = IF ~MeshEmpty(verts, faces) /\ DrawRaises(verts, faces)
             THEN "crashed" ELSE "poll"
    /\ UNCHANGED <<path, verts, faces, zoom, rot_x, rot_y, mouse_down,
                   last_mouse, running, window, printed, loadVars, histVars>>

Next ==
    \/ \E p \in Paths \cup {""} : Start(p)
    \/ LoadInitial
    \/ Setup
    \/ PollEvents
    \/ EvQuit
    \/ KeyEscape
    \/ \E p \in Paths \cup {""} : KeyO(p)
    \/ KeyR
    \/ KeyUp
    \/ KeyDown
    \/ \E pos \in Pos : LeftDown(pos)
    \/ WheelUp
    \/ WheelDown
    \/ LeftUp
    \/ \E pos \in Pos : MouseMotion(pos)
    \/ OtherEvent
    \/ RenderFrame
    \/ QuitPygame

Spec == Init /\ [][Next]_vars

\* ================================================================ claims
Camera == <<zoom, rot_x, rot_y, mouse_down, last_mouse>>

\* C1 (as claimed): every index of every triangle load_obj returns is a
\* valid 0-based position in the returned vertices: 0 <= index < len(verts).
C1_IndicesValid ==
    ld_pc = "returned" =>
        \A t \in 1..Len(ld_faces) : \A j \in 1..3 :
            ld_faces[t][j] >= 0 /\ ld_faces[t][j] < Len(ld_verts)

\* C2 (as claimed): when the open-file key yields a path whose load gives an
\* empty mesh, the active vertices and triangles stay as they were.
C2_EmptyReloadRejected ==
    [][\A p \in Paths :
          (KeyO(p) /\ MeshEmpty(Loaded[p].verts, Loaded[p].faces))
          => UNCHANGED <<verts, faces>>]_vars

\* C3 (as claimed): whenever an exception occurs while loading, the returned
\* vertex and face sequences are both empty.
C3_AbortYieldsEmpty ==
    (ld_pc = "returned" /\ ld_raised) => (ld_verts = <<>> /\ ld_faces = <<>>)

\* C3 (amended): an exception while loading never leaves load_obj; loading
\* stops at that step and load_obj returns the vertices and triangles read
\* from the lines before it, unchanged.
C3_AbortKeepsParsed ==
    [][(ld_raised' /\ ~ld_raised) =>
          /\ ld_pc' = "returned"
          /\ ld_verts' = ld_verts
          /\ ld_faces' = ld_faces]_vars

\* C3 witness: a load that raised after a vertex and a triangle were read.
C3_Witness ==
    ld_pc = "returned" /\ ld_raised /\ ld_verts # <<>> /\ ld_faces # <<>>

\* C4: when an 'f' line ends with the index list face of length n, nothing
\* is appended if n < 3, and otherwise exactly the n-2 triangles
\* (face[0], face[i], face[i+1]), i = 1..n-2, are appended in order; the
\* triangles stored before are unchanged.
C4_FanAppended ==
    [][(ld_pc = "face" /\ ld_pc' = "reading") =>
          LET n == Len(ld_face)
              k == Len(ld_faces)
          IN IF n < 3
             THEN ld_faces' = ld_faces
             ELSE /\ Len(ld_faces') = k + n - 2
                  /\ SubSeq(ld_faces', 1, k) = ld_faces
                  /\ \A i \in 1..(n - 2) :
                        ld_faces'[k + i] =
                            <<ld_face[1], ld_face[i + 1], ld_face[i + 2]>>]_vars

\* C4 witness: a 5-index face was fanned into 3 triangles behind an earlier
\* triangle.
C4_Witness ==
    /\ ld_pc = "reading"
    /\ Len(ld_face) = 5 /\ ld_face[2] # ld_face[3] /\ ld_face[4] # ld_face[5]
    /\ Len(ld_faces) = 4
    /\ ld_faces[4] = <<ld_face[1], ld_face[4], ld_face[5]>>

\* C5: a MouseMove while dragging adds half the vertical pointer delta to
\* rot_x and half the horizontal one to rot_y and moves last_mouse; a
\* MouseMove while not dragging changes no camera value; dragging holds
\* exactly when the most recent left-button event is a press, which sets
\* last_mouse; so rot_x and rot_y are half the deltas summed over the drags
\* since the last reset.  (Rotations are in halves: half a delta is the delta.
\* The three equations hold initially, all being 0 = 0 and FALSE <=> FALSE,
\* and are stated for the state after every step.)
C5_DragRotates ==
    [][/\ mouse_down' <=> (lastLeft' = "down")
       /\ rot_x' = dragY'
       /\ rot_y' = dragX'
       /\ \A pos \in Pos :
            /\ MouseMotion(pos) =>
                  IF mouse_down
                  THEN /\ rot_x' = rot_x + (pos[2] - last_mouse[2])
                       /\ rot_y' = rot_y + (pos[1] - last_mouse[1])
                       /\ last_mouse' = pos
                       /\ zoom' = zoom
                  ELSE UNCHANGED <<rot_x, rot_y, zoom, last_mouse>>
            /\ LeftDown(pos) => (mouse_down' /\ last_mouse' = pos)
       /\ LeftUp => ~mouse_down']_vars

\* C5 witness: a drag from (1, 0) to (0, 1) turned rot_x by +0.5 and rot_y
\* by -0.5.
C5_Witness ==
    /\ mouse_down /\ last_mouse = <<0, 1>>
    /\ rot_x = 1 /\ rot_y = -1

\* C6 (as claimed): the render loop stops iterating only once a Quit event
\* or an Escape key-down was dispatched.
C6_RunsUntilQuit ==
    (pc = "done" \/ pc = "crashed") => ~running

\* C7: zoom is 5.0 - 1.0 * (#Up - #Down) - 0.5 * (#ScrollUp - #ScrollDown)
\* after any sequence of events, with no clamp (in halves: 10, 2, 1).
C7_ZoomUnclamped ==
    zoom = 10 - 2 * nKey - nScroll

\* C7 witness: six zoom-in key presses put the camera behind the origin.
C7_Witness ==
    zoom < 0 /\ nKey = 6

\* C8: with no path, or with a loaded mesh that has no vertices or no
\* triangles, main prints its diagnostic and returns without a window; the
\* window and the loop are entered only with a mesh that has both.
C8_StartupGuard ==
    [][/\ (pc = "start" /\ path' = "") =>
             (pc' = "returned" /\ "no file selected" \in printed')
       /\ (pc = "load" /\ MeshEmpty(verts', faces')) =>
             (pc' = "returned" /\ "empty file" \in printed')
       /\ pc' = "returned" => ~window'
       /\ (window' /\ ~window) =>
             (pc' = "poll" /\ path # "" /\ ~MeshEmpty(verts', faces'))]_vars

\* C8 witness: main returned on a file with vertices and no faces.
C8_Witness ==
    /\ pc = "returned" /\ printed = {"empty file"}
    /\ verts # <<>> /\ faces = <<>> /\ ~window

\* C9: the open-file key with a cancelled dialog changes neither the mesh
\* nor the camera; with a path it replaces verts and faces by the result of
\* one load and leaves the camera alone.
C9_OpenFileFrame ==
    [][/\ KeyO("") => UNCHANGED <<verts, faces, Camera>>
       /\ \A p \in Paths :
             KeyO(p) =>
               /\ verts' = Loaded[p].verts
               /\ faces' = Loaded[p].faces
               /\ UNCHANGED Camera]_vars

\* C9 witness: a mesh only a reload can leave (vertices, no triangles) under
\* a camera that was turned and zoomed.
C9_Witness ==
    /\ pc = "events" /\ verts # <<>> /\ faces = <<>>
    /\ rot_x # 0 /\ zoom # 10 /\ mouse_down

\* C10: the reset key zeroes rot_x and rot_y and leaves zoom, the drag and
\* the mesh alone; a MouseMove that follows it in a drag adds only its own
\* delta, taken from the unchanged last_mouse.
C10_ResetFrame ==
    [][/\ KeyR =>
             /\ rot_x' = 0 /\ rot_y' = 0
             /\ UNCHANGED <<zoom, mouse_down, last_mouse, verts, faces>>
       /\ \A pos \in Pos :
             (afterReset /\ mouse_down /\ MouseMotion(pos)) =>
               /\ rot_x' = pos[2] - last_mouse[2]
               /\ rot_y' = pos[1] - last_mouse[1]]_vars

\* C10 witness: a reset in the middle of a drag, with the camera zoomed.
C10_Witness ==
    /\ afterReset /\ mouse_down /\ last_mouse = <<1, 1>>
    /\ rot_x = 0 /\ rot_y = 0 /\ zoom = 9

====
